---- MODULE Spec2Model ----
(***************************************************************************)
(* oceanspy/_ospy_utils.py: the comodo axis annotation of _create_grid and *)
(* the POP relabelling pipeline (_label_coord_grid_locs,                   *)
(* _add_pop_dims_to_dataset, _dims_from_grid_loc, _relabel_pop_dims).      *)
(*                                                                         *)
(* A dataset is a record [attrs, vars]:                                    *)
(*   attrs : dimension name -> attribute dict of its dimension coordinate  *)
(*           (DOMAIN attrs is dataset.dims; every dimension is taken to    *)
(*           have a coordinate variable, so dataset[dim].attrs is stored), *)
(*   vars  : data variable name -> [dims, data, attrs].                    *)
(* A Python dict is a function whose DOMAIN is the set of keys present.    *)
(* A call's effect on the object the caller passed in and the value it     *)
(* returns are kept apart: an operator that models a function returns a    *)
(* record with the caller's object after the call (input) and the result.  *)
(***************************************************************************)
EXTENDS Integers, Sequences, FiniteSets, TLC

VARIABLES
    ds,        \* the dataset object the caller holds and passes to every call
    ds0,       \* ds as it was before the first call
    op,        \* the function called last
    coords,    \* _create_grid: the coords argument (the caller's axis spec)
    grid,      \* _create_grid: the value returned
    warned,    \* _create_grid: the warnings emitted, each the list it names
    again,     \* _create_grid: the call before this one was _create_grid too
    once,      \* _create_grid: the dimension attrs the call before left
    ret,       \* POP functions: the dataset returned
    raised,    \* POP functions: the exception that ended the call
    grid_loc,  \* _dims_from_grid_loc: the argument
    out        \* _dims_from_grid_loc: the outcome

vars == <<ds, ds0, op, coords, grid, warned, again, once, ret, raised, grid_loc, out>>

\* ---------------------------------------------------------------- bounds
\* Longest axis spec, counted in (axis, dim, shift) entries.
MaxPairs == 2
\* Longest placement-code string given to the decoder.
MaxCodeLen == 5

\* ------------------------------------------------------- Python helpers
NoError == "no exception"

Range(s) == {s[i] : i \in DOMAIN s}

\* dict.pop(key, None)
DictPop(d, key) == [k \in DOMAIN d \ {key} |-> d[k]]

\* d[key] = value
DictSet(d, key, value) == (key :> value) @@ d

\* d.update(other)
DictUpdate(d, other) == other @@ d

\* Python's None as a shift; a number n/10 is <<n>>.
None == <<>>

\* bool(shift) as in `if shift:`; None and zero are false.
Truthy(shift) == shift # None /\ shift[1] # 0

\* str(shift) for the shifts of ShiftValues.
PyStr(shift) ==
    CASE shift = None  -> "None"
      [] shift = <<0>>  -> "0"
      [] shift = <<5>>  -> "0.5"
      [] shift = <<-5>> -> "-0.5"

DigitChars == <<"0", "1", "2", "3", "4", "5", "6", "7", "8", "9">>

RECURSIVE DecimalDigits(_)
DecimalDigits(n) ==
    IF n < 10 THEN <<DigitChars[n + 1]>>
    ELSE Append(DecimalDigits(n \div 10), DigitChars[(n % 10) + 1])

\* str(grid_loc): a str is itself, an int is written in decimal.
str(x) ==
    IF x.kind = "int"
    THEN IF x.val < 0 THEN <<"-">> \o DecimalDigits(0 - x.val)
         ELSE DecimalDigits(x.val)
    ELSE x.val

IsDigit(ch) == \E i \in DOMAIN DigitChars : DigitChars[i] = ch

\* int(ch) of one digit character.
int(ch) == (CHOOSE i \in DOMAIN DigitChars : DigitChars[i] = ch) - 1

\* ------------------------------------------------- _dims_from_grid_loc
Raise(exc) == [raised |-> exc, none |-> FALSE, dims |-> <<>>]
Return(dims) == [raised |-> NoError, none |-> FALSE, dims |-> dims]
ReturnNone == [raised |-> NoError, none |-> TRUE, dims |-> <<>>]

x_loc_table == (1 :> "XT") @@ (2 :> "XU")
y_loc_table == (1 :> "XT") @@ (2 :> "XU")
z_loc_table == (0 :> "surface") @@ (1 :> "z_t") @@ (2 :> "z_w")

x_loc(x_loc_key) == x_loc_table[x_loc_key]

\* A Y table of its own, as the X/Y naming of the POP axes suggests.
y_loc_YT(y_loc_key) == ((1 :> "YT") @@ (2 :> "YU"))[y_loc_key]

y_loc(y_loc_key) == y_loc_table[y_loc_key]

z_loc(z_loc_key) == z_loc_table[z_loc_key]

\* The tuple returned once the three names are looked up.
DimsOf(ndim, x, y, z) ==
    IF ndim = 3
    THEN IF z = "surface" THEN Return(<<y, x>>) ELSE Return(<<z, y, x>>)
    ELSE IF ndim = 2 THEN Return(<<z, y, x>>) ELSE ReturnNone

_dims_from_grid_loc(code) ==
    LET s == str(code)
        \* grid_loc[0] .. grid_loc[3] are read and converted in this order
        bad == {i \in 1..4 : i > Len(s) \/ ~IsDigit(s[i])}
        first == CHOOSE i \in bad : \A j \in bad : i <= j
    IN  IF bad # {}
        THEN IF first > Len(s) THEN Raise("IndexError") ELSE Raise("ValueError")
        ELSE LET ndim == int(s[1])
                 x_loc_key == int(s[2])
                 y_loc_key == int(s[3])
                 z_loc_key == int(s[4])
             IN  IF \/ x_loc_key \notin DOMAIN x_loc_table
                    \/ y_loc_key \notin DOMAIN y_loc_table
                    \/ z_loc_key \notin DOMAIN z_loc_table
                 THEN Raise("KeyError")
                 ELSE DimsOf(ndim, x_loc(x_loc_key), y_loc(y_loc_key), z_loc(z_loc_key))

\* -------------------------------------------------------- _create_grid
\* The axis spec `coords`, e.g. {'Y': {Y: None, Yp1: 0.5}}, is the sequence
\* of its (axis, dim, shift) entries in the order the two nested loops
\* visit them: the entries of one axis are adjacent and name a dim once.
AxisLabels == {"X", "Y"}
SpecDimNames == {"a", "b", "q"}
ShiftValues == {None, <<0>>, <<5>>}
Entries == [axis : AxisLabels, dim : SpecDimNames, shift : ShiftValues]

IsCoords(c) ==
    \A i, j \in DOMAIN c :
        i < j /\ c[i].axis = c[j].axis =>
            /\ c[i].dim # c[j].dim
            /\ \A k \in i..j : c[k].axis = c[i].axis

CoordsValues ==
    {c \in UNION {[1..n -> Entries] : n \in 0..MaxPairs} : IsCoords(c)}

\* Clean-up left out: stale comodo attributes survive the call.
CleanUpSkipped(attrs) == attrs

\* for dim in dataset.dims: pop 'axis' and 'c_grid_axis_shift'
CleanUp(attrs) ==
    [dim \in DOMAIN attrs |->
        DictPop(DictPop(attrs[dim], "axis"), "c_grid_axis_shift")]

\* One pass of the inner loop body for entry e.
AddComodoEntry(st, e) ==
    IF e.dim \notin DOMAIN st.attrs
    THEN [st EXCEPT !.warn_dims = Append(@, e.dim)]
    ELSE LET withAxis == DictSet(st.attrs[e.dim], "axis", e.axis)
             withShift == IF Truthy(e.shift)
                          THEN DictSet(withAxis, "c_grid_axis_shift", PyStr(e.shift))
                          ELSE withAxis
         IN  [st EXCEPT !.attrs[e.dim] = withShift]

\* `if coords:` and the two nested loops, from entry i on.
RECURSIVE AddComodo(_, _, _)
AddComodo(st, c, i) ==
    IF i > Len(c) THEN st ELSE AddComodo(AddComodoEntry(st, c[i]), c, i + 1)

\* A warning raised inside the loop: one per absent dimension.
WarnEachDim(warn_dims) == [i \in DOMAIN warn_dims |-> <<warn_dims[i]>>]

\* The warnings emitted after the loops: one naming the whole list, or none.
Warn(warn_dims) == IF Len(warn_dims) # 0 THEN <<warn_dims>> ELSE <<>>

\* grid.axes of xgcm.Grid(dataset, ...): the values of the 'axis' attribute
\* found on the dataset's dimensions.  periodic and face_connections are
\* handed to xgcm and do not change which axes the grid has.
GridAxes(attrs) ==
    {attrs[dim]["axis"] : dim \in {d \in DOMAIN attrs : "axis" \in DOMAIN attrs[d]}}

\* The empty grid returned as it is.
GridKeptEmpty(axes) == [none |-> FALSE, axes |-> axes]

\* if len(grid.axes) == 0: grid = None
GridOrNone(axes) ==
    IF Cardinality(axes) = 0 THEN [none |-> TRUE, axes |-> {}]
    ELSE [none |-> FALSE, axes |-> axes]

\* dataset[dim].attrs is the attrs dict of the caller's own object: the
\* function edits it in place and returns the grid alone.
_create_grid(dataset, c) ==
    LET st == AddComodo([attrs |-> CleanUp(dataset.attrs), warn_dims |-> <<>>], c, 1)
    IN  [input  |-> [dataset EXCEPT !.attrs = st.attrs],
         warned |-> Warn(st.warn_dims),
         grid   |-> GridOrNone(GridAxes(st.attrs))]

\* --------------------------------------------------------- POP pipeline
\* Names bound at module level: the imports and the functions defined.
ModuleGlobals ==
    {"numpy", "warnings", "xgcm", "_xr",
     "_create_grid", "_check_instance", "_check_oceanspy_axes",
     "_check_list_of_string", "_check_range", "_handle_aliased",
     "_rename_aliased", "_check_mean_and_int_axes", "_rename_coord_attrs",
     "_restore_coord_attrs", "_add_pop_dims_to_dataset", "_dims_from_grid_loc",
     "_label_coord_grid_locs", "_relabel_pop_dims", "_check_part_position",
     "_check_ijk_components", "_check_native_grid", "_check_options",
     "_ax_warning", "_wrong_axes_error_message", "_setter_error_message"}

NoDataset == [attrs |-> <<>>, vars |-> <<>>]

grid_locs ==
    ("ANGLE" :> <<"2","2","2","0">>) @@ ("ANGLET" :> <<"2","1","1","0">>) @@
    ("DXT" :> <<"2","1","1","0">>) @@ ("DXU" :> <<"2","2","2","0">>) @@
    ("DYT" :> <<"2","1","1","0">>) @@ ("DYU" :> <<"2","2","2","0">>) @@
    ("HT" :> <<"2","1","1","0">>) @@ ("HU" :> <<"2","2","2","0">>) @@
    ("HTE" :> <<"2","2","1","0">>) @@ ("HTN" :> <<"2","1","2","0">>) @@
    ("HUS" :> <<"2","2","1","0">>) @@ ("HUW" :> <<"2","1","2","0">>) @@
    ("KMT" :> <<"2","1","1","0">>) @@ ("KMU" :> <<"2","2","2","0">>) @@
    ("REGION_MASK" :> <<"2","1","1","0">>) @@ ("TAREA" :> <<"2","1","1","0">>) @@
    ("TLAT" :> <<"2","1","1","0">>) @@ ("TLONG" :> <<"2","1","1","0">>) @@
    ("UAREA" :> <<"2","2","2","0">>) @@ ("ULAT" :> <<"2","2","2","0">>) @@
    ("ULONG" :> <<"2","2","2","0">>) @@ ("ADVU" :> <<"3","2","2","1">>) @@
    ("ADVV" :> <<"3","2","2","1">>) @@ ("DIA_IMPVF_SALT" :> <<"3","1","1","2">>) @@
    ("DIA_IMPVF_TEMP" :> <<"3","1","1","2">>) @@ ("EVAP_F" :> <<"2","1","1","0">>) @@
    ("GRADX" :> <<"3","2","2","1">>) @@ ("GRADY" :> <<"3","2","2","1">>) @@
    ("HBLT" :> <<"2","1","1","0">>) @@ ("HMXL" :> <<"2","1","1","0">>) @@
    ("HDIFB_SALT" :> <<"3","1","1","2">>) @@ ("HDIFB_TEMP" :> <<"3","1","1","2">>) @@
    ("HDIFE_SALT" :> <<"3","2","1","1">>) @@ ("HDIFE_TEMP" :> <<"3","2","1","1">>) @@
    ("HDIFN_SALT" :> <<"3","1","2","1">>) @@ ("HDIFN_TEMP" :> <<"3","1","2","1">>) @@
    ("HDIFFU" :> <<"3","2","2","1">>) @@ ("HDIFFV" :> <<"3","2","2","1">>) @@
    ("KPP_SRC_SALT" :> <<"3","1","1","1">>) @@ ("KPP_SRC_TEMP" :> <<"3","1","1","1">>) @@
    ("LWDN_F" :> <<"2","1","1","0">>) @@ ("LWUP_F" :> <<"2","1","1","0">>) @@
    ("MELTH_F" :> <<"2","1","1","0">>) @@ ("MELT_F" :> <<"2","1","1","0">>) @@
    ("PD" :> <<"3","1","1","1">>) @@ ("PREC_F" :> <<"2","1","1","0">>) @@
    ("QFLUX" :> <<"2","1","1","0">>) @@ ("QSW_3D" :> <<"3","1","1","1">>) @@
    ("ROFF_F" :> <<"2","1","1","0">>) @@ ("SALT" :> <<"3","1","1","1">>) @@
    ("SALT_F" :> <<"2","1","1","0">>) @@ ("SENH_F" :> <<"2","1","1","0">>) @@
    ("SFWF" :> <<"2","1","1","0">>) @@ ("SFWF_WRST" :> <<"2","1","1","0">>) @@
    ("SHF" :> <<"2","1","1","0">>) @@ ("SHF_QSW" :> <<"2","1","1","0">>) @@
    ("SNOW_F" :> <<"2","1","1","0">>) @@ ("SSH" :> <<"2","1","1","0">>) @@
    ("SSH2" :> <<"2","1","1","0">>) @@ ("SU" :> <<"2","2","2","0">>) @@
    ("SV" :> <<"2","2","2","0">>) @@ ("TAUX" :> <<"2","2","2","0">>) @@
    ("TAUY" :> <<"2","2","2","0">>) @@ ("TBLT" :> <<"2","1","1","0">>) @@
    ("TEMP" :> <<"3","1","1","1">>) @@ ("TEND_TEMP" :> <<"3","1","1","1">>) @@
    ("TEND_SALT" :> <<"3","1","1","1">>) @@ ("TMXL" :> <<"2","1","1","0">>) @@
    ("UES" :> <<"3","2","1","1">>) @@ ("UET" :> <<"3","2","1","1">>) @@
    ("UV" :> <<"3","2","2","1">>) @@ ("UVEL" :> <<"3","2","2","1">>) @@
    ("UVEL2" :> <<"3","2","2","1">>) @@ ("VVEL" :> <<"3","2","2","1">>) @@
    ("VVEL2" :> <<"3","2","2","1">>) @@ ("VDIFFU" :> <<"3","2","2","1">>) @@
    ("VDIFFV" :> <<"3","2","2","1">>) @@ ("VNS" :> <<"3","1","2","1">>) @@
    ("VNT" :> <<"3","1","2","1">>) @@ ("WTS" :> <<"3","1","1","2">>) @@
    ("WTT" :> <<"3","1","1","2">>) @@ ("WVEL" :> <<"3","2","2","2">>) @@
    ("XBLT" :> <<"2","1","1","0">>) @@ ("XMXL" :> <<"2","1","1","0">>)

\* The loop of _label_coord_grid_locs over the variables.
LabelVars(vs) ==
    [v \in DOMAIN vs |->
        IF v \in DOMAIN grid_locs
        THEN [vs[v] EXCEPT !.attrs = DictSet(@, "grid_loc", grid_locs[v])]
        ELSE vs[v]]

\* ds_new = ds instead of ds.copy(): the labels land on the caller's object.
_label_coord_grid_locs_nocopy(d) ==
    [input |-> [d EXCEPT !.vars = LabelVars(d.vars)],
     ret   |-> [d EXCEPT !.vars = LabelVars(d.vars)]]

\* ds.copy() gives every variable an attrs dict of its own, so the labels
\* are written to the copy only.
_label_coord_grid_locs(d) ==
    [input |-> d, ret |-> [d EXCEPT !.vars = LabelVars(d.vars)]]

\* The body of _add_pop_dims_to_dataset past the name lookup of `np`.
\* XU, YU, XT are new dimension coordinates ('XT' is assigned twice, the
\* second assignment stands); a number n/10 is <<n>>.
AddPopDims(d) ==
    LET names == DOMAIN d.attrs \union DOMAIN d.vars
        axes == ("XU" :> [axis |-> "X", c_grid_axis_shift |-> <<5>>])
             @@ ("YU" :> [axis |-> "Y", c_grid_axis_shift |-> <<5>>])
             @@ ("XT" :> [axis |-> "Y"])
        added == axes @@ d.attrs
        zattrs == ("Z_t" :> [axis |-> "Z"])
               @@ ("Z_w" :> [axis |-> "Z", c_grid_axis_shift |-> <<-5>>])
               @@ ("Z_w_top" :> [axis |-> "Z", c_grid_axis_shift |-> <<-5>>])
               @@ ("Z_w_bot" :> [axis |-> "Z", c_grid_axis_shift |-> <<5>>])
    IN  IF ~({"nlon", "nlat"} \subseteq names)
        THEN [input |-> d, raised |-> "AttributeError", ret |-> NoDataset]
        ELSE IF ~({"z_t", "z_w", "z_w_top", "z_w_bot"} \subseteq names)
        THEN [input |-> d, raised |-> "ValueError", ret |-> NoDataset]
        ELSE IF ~(DOMAIN zattrs \subseteq DOMAIN added)
        THEN [input |-> d, raised |-> "KeyError", ret |-> NoDataset]
        ELSE [input |-> d, raised |-> NoError,
              ret |-> [d EXCEPT !.attrs =
                         [n \in DOMAIN added |->
                            IF n \in DOMAIN zattrs
                            THEN DictUpdate(added[n], zattrs[n]) ELSE added[n]]]]

\* `np` is looked up in the module's globals when line 361 runs.
_add_pop_dims_to_dataset(d) ==
    IF "np" \notin ModuleGlobals
    THEN [input |-> d, raised |-> "NameError", ret |-> NoDataset]
    ELSE AddPopDims(d)

\* One pass of the loop of _relabel_pop_dims for a variable with 'grid_loc'.
RelabelVar(da) ==
    LET new_spatial_dims == _dims_from_grid_loc([kind |-> "str", val |-> da.attrs["grid_loc"]])
    IN  IF new_spatial_dims.raised # NoError
        THEN [raised |-> new_spatial_dims.raised, var |-> da]
        ELSE IF Len(da.dims) = 0
        THEN [raised |-> "IndexError", var |-> da]
        ELSE IF new_spatial_dims.none
        THEN [raised |-> "TypeError", var |-> da]
        ELSE [raised |-> NoError,
              var |-> [dims  |-> IF da.dims[1] = "Nt"
                                 THEN <<"Nt">> \o new_spatial_dims.dims
                                 ELSE new_spatial_dims.dims,
                       data  |-> da.data,
                       attrs |-> da.attrs]]

\* The loop of _relabel_pop_dims; the first variable that raises ends it.
RelabelVars(d) ==
    LET tagged == {v \in DOMAIN d.vars : "grid_loc" \in DOMAIN d.vars[v].attrs}
        failing == {v \in tagged : RelabelVar(d.vars[v]).raised # NoError}
    IN  IF failing # {}
        THEN [raised |-> RelabelVar(d.vars[CHOOSE v \in failing : TRUE]).raised,
              ret |-> NoDataset]
        ELSE [raised |-> NoError,
              ret |-> [d EXCEPT !.vars =
                         [v \in DOMAIN d.vars |->
                            IF v \in tagged THEN RelabelVar(d.vars[v]).var
                            ELSE d.vars[v]]]]

_relabel_pop_dims(d) ==
    LET labelled == _label_coord_grid_locs(d)
        added == _add_pop_dims_to_dataset(labelled.ret)
    IN  IF added.raised # NoError
        THEN [input |-> labelled.input, raised |-> added.raised, ret |-> NoDataset]
        ELSE [input |-> labelled.input,
              raised |-> RelabelVars(added.ret).raised,
              ret |-> RelabelVars(added.ret).ret]

\* ------------------------------------------------------- initial values
\* Attribute dicts a dimension coordinate may carry before the first call.
CleanAttrs == [units |-> "m"]
StaleAttrs == [axis |-> "Z", c_grid_axis_shift |-> "-0.5", long_name |-> "depth"]

DsDimNames == {"a", "b"}

DimAttrsValues ==
    UNION {[D -> {CleanAttrs, StaleAttrs}] : D \in SUBSET DsDimNames}

\* Data variables: two from the registry, one the registry does not know.
VarNames == {"TEMP", "HTE", "FOO"}
DimsOrig == {<<"nlat", "nlon">>, <<"Nt", "z_t", "nlat", "nlon">>}
VarAttrsValues ==
    {[units |-> "1"], [units |-> "1", grid_loc |-> <<"3", "1", "1", "0">>]}
DataOf == [TEMP |-> <<4, 5, 6>>, HTE |-> <<1, 2>>, FOO |-> <<7>>]

PopVars ==
    UNION {{[v \in V |-> [dims |-> f[v].dims, data |-> DataOf[v], attrs |-> f[v].attrs]] :
               f \in [V -> [dims : DimsOrig, attrs : VarAttrsValues]]} :
           V \in SUBSET VarNames}

VarSamples ==
    {[v \in {"TEMP", "FOO"} |->
        [dims  |-> IF v = "TEMP" THEN <<"Nt", "z_t", "nlat", "nlon">> ELSE <<"nlat", "nlon">>,
         data  |-> DataOf[v],
         attrs |-> IF v = "FOO" THEN [units |-> "1", grid_loc |-> <<"3", "1", "1", "0">>]
                   ELSE [units |-> "1"]]],
     [v \in {"HTE"} |->
        [dims |-> <<"nlat", "nlon">>, data |-> DataOf[v], attrs |-> [units |-> "1"]]]}

PopDimAttrs == [dim \in {"nlat", "nlon", "z_t", "z_w"} |-> CleanAttrs]

\* Arguments of the decoder: strings, and ints (str() is applied to both).
CodeChars == {"0", "1", "2", "3", "x"}
GridLocValues ==
    {[kind |-> "str", val |-> s] :
        s \in UNION {[1..n -> CodeChars] : n \in 0..MaxCodeLen}}
    \union {[kind |-> "int", val |-> n] : n \in {0, 311, 2110, 3110, 3222, 31100, 0 - 3110}}

NoGrid == [none |-> TRUE, axes |-> {}]
NoCode == [kind |-> "str", val |-> <<>>]
NotCalled == [raised |-> NoError, none |-> TRUE, dims |-> <<>>]

Idle ==
    /\ ds0 = ds
    /\ op = "none"
    /\ grid = NoGrid
    /\ warned = <<>>
    /\ again = FALSE
    /\ once = <<>>
    /\ ret = NoDataset
    /\ raised = NoError
    /\ out = NotCalled

Init ==
    /\ ds \in {[attrs |-> a, vars |-> v] : a \in DimAttrsValues, v \in VarSamples}
    /\ coords \in CoordsValues
    /\ grid_loc = NoCode
    /\ Idle

InitPop ==
    /\ ds \in {[attrs |-> PopDimAttrs, vars |-> v] : v \in PopVars}
    /\ coords = <<>>
    /\ grid_loc = NoCode
    /\ Idle

InitDecode ==
    /\ ds = NoDataset
    /\ coords = <<>>
    /\ grid_loc \in GridLocValues
    /\ Idle

\* -------------------------------------------------------------- actions
\* The caller's axis spec is fixed for a run (coords) and handed to every call.
CreateGrid ==
    LET r == _create_grid(ds, coords)
    IN  /\ ds' = r.input
        /\ op' = "_create_grid"
        /\ grid' = r.grid
        /\ warned' = r.warned
        /\ again' = (op = "_create_grid")
        /\ once' = IF op = "_create_grid" THEN ds.attrs ELSE <<>>
        /\ ret' = NoDataset
        /\ raised' = NoError
        /\ UNCHANGED <<ds0, coords, grid_loc, out>>

\* What a POP call leaves of the previous _create_grid call's results.
GridResultsDropped ==
    /\ grid' = NoGrid
    /\ warned' = <<>>
    /\ again' = FALSE
    /\ once' = <<>>

LabelCoordGridLocs ==
    LET r == _label_coord_grid_locs(ds)
    IN  /\ ds' = r.input
        /\ op' = "_label_coord_grid_locs"
        /\ ret' = r.ret
        /\ raised' = NoError
        /\ GridResultsDropped
        /\ UNCHANGED <<ds0, coords, grid_loc, out>>

AddPopDimsToDataset ==
    LET r == _add_pop_dims_to_dataset(ds)
    IN  /\ ds' = r.input
        /\ op' = "_add_pop_dims_to_dataset"
        /\ ret' = r.ret
        /\ raised' = r.raised
        /\ GridResultsDropped
        /\ UNCHANGED <<ds0, coords, grid_loc, out>>

RelabelPopDims ==
    LET r == _relabel_pop_dims(ds)
    IN  /\ ds' = r.input
        /\ op' = "_relabel_pop_dims"
        /\ ret' = r.ret
        /\ raised' = r.raised
        /\ GridResultsDropped
        /\ UNCHANGED <<ds0, coords, grid_loc, out>>

\* The decoder is applied once to the argument of the run (grid_loc).
DimsFromGridLoc ==
    /\ op = "none"
    /\ out' = _dims_from_grid_loc(grid_loc)
    /\ op' = "_dims_from_grid_loc"
    /\ UNCHANGED <<ds, ds0, coords, grid, warned, again, once, ret, raised, grid_loc>>

Next == CreateGrid \/ LabelCoordGridLocs \/ AddPopDimsToDataset \/ RelabelPopDims
Spec == Init /\ [][Next]_vars

NextPop == LabelCoordGridLocs \/ AddPopDimsToDataset \/ RelabelPopDims
SpecPop == InitPop /\ [][NextPop]_vars

NextDecode == DimsFromGridLoc
SpecDecode == InitDecode /\ [][NextDecode]_vars

\* =============================================================== claims
\* The 4-character codes abcd with a in {2,3}, b, c in {1,2}, d in {0,1,2}.
ValidCodes ==
    {s \in [1..4 -> {"0", "1", "2", "3"}] :
        /\ s[1] \in {"2", "3"}
        /\ s[2] \in {"1", "2"}
        /\ s[3] \in {"1", "2"}
        /\ s[4] \in {"0", "1", "2"}}

C2_MalformedCodeFails ==
    op = "_dims_from_grid_loc" /\ Len(str(grid_loc)) # 4 => out.raised # NoError

\* The dimension names of the axis spec that are no dimension of dataset d.
AbsentNames(c, d) == {c[i].dim : i \in DOMAIN c} \ DOMAIN d.attrs

\* C3: _create_grid emits no warning when every name of the spec is a
\* dimension of the dataset, and otherwise exactly one warning, which lists
\* all and only the absent names; the call returns either way.
C3_OneWarningNamesAbsent ==
    op = "_create_grid" =>
        /\ AbsentNames(coords, ds) = {} => warned = <<>>
        /\ AbsentNames(coords, ds) # {} =>
              Len(warned) = 1 /\ Range(warned[1]) = AbsentNames(coords, ds)

\* C3 witness: a call whose spec names two absent dimensions and one present.
C3_Witness ==
    /\ op = "_create_grid"
    /\ Cardinality(AbsentNames(coords, ds)) = 2
    /\ Len(warned) = 1
    /\ DOMAIN ds.attrs # {}

\* The axis labels under which a dimension of dataset d is declared.
DeclaredPresent(c, d) ==
    {c[i].axis : i \in {k \in DOMAIN c : c[k].dim \in DOMAIN d.attrs}}

\* The axis labels that are the last to declare some dimension of d.
LastDeclared(c, d) ==
    {c[i].axis : i \in {k \in DOMAIN c :
        /\ c[k].dim \in DOMAIN d.attrs
        /\ \A j \in DOMAIN c : j > k => c[j].dim # c[k].dim}}

\* C4 as stated: None iff no declared dimension is in the dataset, else the
\* grid's axes are exactly the labels with a declared dimension present.
C4_AxesAreDeclaredLabels ==
    op = "_create_grid" =>
        /\ grid.none <=> DeclaredPresent(coords, ds) = {}
        /\ ~grid.none => grid.axes = DeclaredPresent(coords, ds)

\* C4 amended: None iff no declared dimension is in the dataset, else the
\* grid's axes are exactly the labels that are the last in the spec to
\* declare some dimension of the dataset (a dimension declared under two
\* labels counts for the later one only), whatever metadata was there before.
C4_AxesAreLastDeclaredLabels ==
    op = "_create_grid" =>
        /\ grid.none <=> DeclaredPresent(coords, ds) = {}
        /\ ~grid.none => grid.axes = LastDeclared(coords, ds)

\* C4 witness: a grid built from a dataset with stale axis metadata and a
\* spec that declares one present dimension under two labels.
C4_Witness ==
    /\ op = "_create_grid"
    /\ ~grid.none
    /\ \E dim \in DOMAIN ds0.attrs : "axis" \in DOMAIN ds0.attrs[dim]
    /\ LastDeclared(coords, ds) # DeclaredPresent(coords, ds)

\* C5: a second call with the same spec leaves the per-dimension attributes
\* as the first call left them, and after any call a dimension the spec does
\* not name carries neither 'axis' nor 'c_grid_axis_shift'.
C5_AnnotationIdempotent ==
    op = "_create_grid" =>
        /\ again => ds.attrs = once
        /\ \A dim \in DOMAIN ds.attrs :
              dim \notin {coords[i].dim : i \in DOMAIN coords} =>
                  /\ "axis" \notin DOMAIN ds.attrs[dim]
                  /\ "c_grid_axis_shift" \notin DOMAIN ds.attrs[dim]

\* C5 witness: a repeated call on a dataset that came with stale attributes
\* on a dimension the spec does not name, the spec shifting another one.
C5_Witness ==
    /\ op = "_create_grid"
    /\ again
    /\ \E dim \in DOMAIN ds0.attrs :
          /\ "axis" \in DOMAIN ds0.attrs[dim]
          /\ dim \notin {coords[i].dim : i \in DOMAIN coords}
    /\ \E dim \in DOMAIN ds.attrs : "c_grid_axis_shift" \in DOMAIN ds.attrs[dim]

\* C6: for every (dim, shift) of the spec whose dim is in the dataset (and
\* is declared there once), after the call 'axis' is the axis label and
\* 'c_grid_axis_shift' is str(shift) exactly when shift is not None, a
\* numeric shift of 0 included.
C6_ShiftSetUnlessNone ==
    op = "_create_grid" =>
        \A i \in DOMAIN coords :
            /\ coords[i].dim \in DOMAIN ds.attrs
            /\ \A j \in DOMAIN coords : coords[j].dim = coords[i].dim => j = i
            => LET a == ds.attrs[coords[i].dim]
               IN  /\ "axis" \in DOMAIN a /\ a["axis"] = coords[i].axis
                   /\ coords[i].shift = None => "c_grid_axis_shift" \notin DOMAIN a
                   /\ coords[i].shift # None =>
                         /\ "c_grid_axis_shift" \in DOMAIN a
                         /\ a["c_grid_axis_shift"] = PyStr(coords[i].shift)

\* C7: _relabel_pop_dims returns a dataset in which every variable absent
\* from grid_locs has the dimension tuple it had in the input, whatever
\* attributes it carries.
C7_UnregisteredDimsUntouched ==
    op = "_relabel_pop_dims" =>
        \A v \in DOMAIN ds0.vars \ DOMAIN grid_locs :
            /\ raised = NoError
            /\ v \in DOMAIN ret.vars
            /\ ret.vars[v].dims = ds0.vars[v].dims

\* The per-dimension attributes other than the two comodo ones.
OtherAttrs(a) == DictPop(DictPop(a, "axis"), "c_grid_axis_shift")

LabelledAttrs(d, v) ==
    IF v \in DOMAIN grid_locs
    THEN DictSet(d.vars[v].attrs, "grid_loc", grid_locs[v])
    ELSE d.vars[v].attrs

\* C9: every variable carrying 'grid_loc' comes out of _relabel_pop_dims
\* with its data and attributes as before the rewrite and with the decoded
\* tuple as dimensions, 'Nt' prepended exactly when it led the original ones.
C9_RewriteKeepsDataAndAttrs ==
    op = "_relabel_pop_dims" =>
        \A v \in {w \in DOMAIN ds0.vars : "grid_loc" \in DOMAIN LabelledAttrs(ds0, w)} :
            LET decoded == _dims_from_grid_loc(
                               [kind |-> "str", val |-> LabelledAttrs(ds0, v)["grid_loc"]])
            IN  /\ raised = NoError
                /\ v \in DOMAIN ret.vars
                /\ ret.vars[v].data = ds0.vars[v].data
                /\ ret.vars[v].attrs = LabelledAttrs(ds0, v)
                /\ ret.vars[v].dims = IF ds0.vars[v].dims[1] = "Nt"
                                      THEN <<"Nt">> \o decoded.dims
                                      ELSE decoded.dims

\* Two codes differ in a staggering digit (X, Y or Z position).
StaggerDiffers(c1, c2) == \E i \in 2..4 : c1[i] # c2[i]

\* The decoder's part of C10: valid codes that differ in a staggering digit
\* decode to different tuples.
DecoderSeparatesStaggering ==
    \A c1, c2 \in ValidCodes :
        StaggerDiffers(c1, c2) =>
            _dims_from_grid_loc([kind |-> "str", val |-> c1]).dims
                # _dims_from_grid_loc([kind |-> "str", val |-> c2]).dims

\* C10: codes that differ in a staggering digit decode to different tuples,
\* so two registry variables at different staggering positions come out of
\* _relabel_pop_dims with different dimension tuples.
C10_DistinctDimsAfterRelabel ==
    /\ DecoderSeparatesStaggering
    /\ op = "_relabel_pop_dims" =>
          \A v, w \in DOMAIN ds0.vars \cap DOMAIN grid_locs :
              StaggerDiffers(grid_locs[v], grid_locs[w]) =>
                  /\ raised = NoError
                  /\ {v, w} \subseteq DOMAIN ret.vars
                  /\ ret.vars[v].dims # ret.vars[w].dims

====
